---------------------------- MODULE Spec2Model ----------------------------
(***************************************************************************)
(* Model of the ecommerce demo: the Home page (pages/Home.jsx and its      *)
(* React Query variant), the ProductCard rows and the windowed list that   *)
(* Home mounts.                                                            *)
(*                                                                         *)
(* Home imports the list as FixedSizeList from react-window (Home.jsx      *)
(* line 2) and passes it height, itemCount, itemSize and an inline row     *)
(* function.  What the <List> element does with these props is the         *)
(* behaviour of that component, modelled under the names it uses:          *)
(* getStartIndexForOffset, getStopIndexForStartIndex, _getRangeToRender    *)
(* (visible range plus overscan), getEstimatedTotalSize, the row style     *)
(* top = index * itemSize, _onScrollVertical and _resetIsScrolling.  The   *)
(* default overscanCount differs between its releases, so it is drawn.     *)
(* React's part: React.memo skips a ProductCard whose props are the same   *)
(* objects, useCallback([]) keeps addToCart, and an element whose type is  *)
(* a new function is unmounted and mounted again.                          *)
(*                                                                         *)
(* Spec is Home as written (height 500, itemSize 120); SpecList is the     *)
(* list constructed on its own with props drawn from small sets.           *)
(***************************************************************************)
EXTENDS Integers, Sequences, FiniteSets

VARIABLES
    variant,         \* "import": Home.jsx, "query": the useQuery Home, "list": a <List> given props directly,
                     \* "parent": Header and Cart under a parent that holds a cart
    catalogSize,     \* products.length of the data source
    itemSize,        \* the itemSize prop
    height,          \* the height prop
    overscanCount,   \* the overscanCount prop: Home passes none, the list's default applies
    isLoading,       \* useQuery's isLoading
    cart,            \* Home's cart state: sequence of product indices
    listMounted,     \* the <List> element is rendered by Home
    scrollTop,       \* the scrollTop the last scroll event reported
    scrollOffset,    \* List state
    isScrolling,     \* List state
    scrollDirection, \* List state
    range,           \* what the last List render computed
    rows,            \* mounted rows: index -> style.top
    innerHeight,     \* height style of the list's inner element
    cardRendered,    \* ProductCards whose body ran in the last commit
    remounted,       \* rows unmounted and mounted again in the last commit
    lastEvent,       \* what caused the last commit
    lazyHome,        \* App: the promise of import("./pages/Home")
    shown,           \* App: what the Suspense boundary displays
    pending,         \* setCart updaters queued and not yet rendered: the products they append
    clicks,          \* every product Add to Cart was clicked for, in click order
    batchSize,       \* updaters the last render of Home applied
    headerCount,     \* Header: the cart count displayed
    headerRenders,   \* Header: times its body ran ("Header Rendered")
    shownCount,      \* Cart: the item count displayed
    total,           \* Cart: the memoized total displayed
    totalCalcs,      \* Cart: times the total was calculated ("Calculating total...")
    fetchCount,      \* calls of fetchProducts
    inFlight,        \* fetchProducts promises not yet resolved
    fresh,           \* the cached products are younger than staleTime
    bodyRenders,     \* times the parent (Home) rendered Header and Cart
    requests         \* fetches asked of the ["products"] query (mount, window focus)

vars == <<variant, catalogSize, itemSize, height, overscanCount, isLoading, cart, listMounted,
          scrollTop, scrollOffset, isScrolling, scrollDirection, range, rows,
          innerHeight, cardRendered, remounted, lastEvent, lazyHome, shown,
          pending, clicks, batchSize, headerCount, headerRenders, shownCount,
          total, totalCalcs, fetchCount, inFlight, fresh, bodyRenders, requests>>

listVars == <<scrollTop, scrollOffset, isScrolling, scrollDirection, range, rows,
              innerHeight, cardRendered, remounted>>
propVars == <<variant, catalogSize, itemSize, height, overscanCount>>
cartViewVars == <<headerCount, headerRenders, shownCount, total, totalCalcs, bodyRenders>>
queryVars == <<fetchCount, inFlight, fresh, requests>>

(* ------------------------------ bounds -------------------------------- *)
MaxCart == 2
MaxScrollSteps == 2
MaxSmallCatalog == 2
MaxFetch == 2
MaxRenders == 3

(* ------------------------- program constants -------------------------- *)
HomeHeight == 500
HomeItemSize == 120
\* the list's default overscanCount, by the version of react-window installed
OverscanCounts == {1, 2}

CatalogSizes == (0..MaxSmallCatalog) \cup {10, 1000}
ScrollTops == {110 * k : k \in 0..MaxScrollSteps} \cup {-30, 6000, 6110, 1000000}
\* props a <List> is constructed with when it is exercised on its own
ListItemSizes == {-120, 0, 35, 120}
ListHeights == {400, 500}
ListItemCounts == {-1, 0, 3, 10, 1000}
\* prices the model draws for a product (products.js: Math.floor(Math.random() * 1000))
Prices == {0, 999}

(* --------------------------- JS arithmetic ---------------------------- *)
Min2(a, b) == IF a <= b THEN a ELSE b
Max2(a, b) == IF a >= b THEN a ELSE b
\* Math.floor(a / b) for b # 0
FloorDiv(a, b) == IF b > 0 THEN a \div b ELSE (0 - a) \div (0 - b)
\* Math.ceil(a / b) for b # 0
CeilDiv(a, b) == 0 - FloorDiv(0 - a, b)

(* ------------------------- the windowed list -------------------------- *)
\* itemCount={products.length}; products defaults to [] while the query has no data
itemCountProp(v, n, loading) == IF v = "query" /\ loading THEN 0 ELSE n

itemCount == itemCountProp(variant, catalogSize, isLoading)

\* mutant: the start index is rounded up instead of down
getStartIndexRoundedUp(count, size, offset) ==
    Max2(0, Min2(count - 1, CeilDiv(offset, size)))

getStartIndexForOffset(count, size, offset) ==
    Max2(0, Min2(count - 1, FloorDiv(offset, size)))

\* mutant: the stop index is not clamped to the last item
getStopIndexUnclamped(count, size, h, startIndex, offset) ==
    LET numVisibleItems == CeilDiv(h + offset - startIndex * size, size)
    IN  Max2(0, startIndex + numVisibleItems - 1)

\* mutant: the stop index counts one item too many (start + number of visible items)
getStopIndexOffByOne(count, size, h, startIndex, offset) ==
    LET numVisibleItems == CeilDiv(h + offset - startIndex * size, size)
    IN  Max2(0, Min2(count - 1, startIndex + numVisibleItems))

getStopIndexForStartIndex(count, size, h, startIndex, offset) ==
    LET numVisibleItems == CeilDiv(h + offset - startIndex * size, size)
    IN  Max2(0, Min2(count - 1, startIndex + numVisibleItems - 1))

\* mutant: the offset of the last item instead of the size of all items
getEstimatedTotalSizeShort(count, size) == size * (count - 1)

getEstimatedTotalSize(count, size) == size * count

getItemOffset(size, index) == index * size

overscanBackward(oc, scrolling, dir) ==
    IF ~scrolling \/ dir = "backward" THEN Max2(1, oc) ELSE 1

\* mutant: one more row of overscan after the visible range
overscanForwardWide(oc, scrolling, dir) ==
    IF ~scrolling \/ dir = "forward" THEN Max2(1, oc) + 1 ELSE 1

overscanForward(oc, scrolling, dir) ==
    IF ~scrolling \/ dir = "forward" THEN Max2(1, oc) ELSE 1

NoRange == [nan |-> FALSE, overscanStart |-> 0, overscanStop |-> 0, start |-> 0, stop |-> 0]

\* mutant: the visible range is reported with the overscan margin, which
\* depends on the scroll direction and on isScrolling
getRangeToRenderDirectional(count, size, h, oc, offset, scrolling, dir) ==
    IF count = 0 THEN NoRange
    ELSE IF size = 0 THEN [NoRange EXCEPT !.nan = TRUE]
    ELSE LET startIndex == getStartIndexForOffset(count, size, offset)
             stopIndex  == getStopIndexForStartIndex(count, size, h, startIndex, offset)
             first == Max2(0, startIndex - overscanBackward(oc, scrolling, dir))
             last  == Max2(0, Min2(count - 1, stopIndex + overscanForward(oc, scrolling, dir)))
         IN  [nan |-> FALSE, overscanStart |-> first, overscanStop |-> last,
              start |-> first, stop |-> last]

\* _getRangeToRender.  With itemSize = 0 every index is Math.floor(0 / 0) = NaN.
getRangeToRender(count, size, h, oc, offset, scrolling, dir) ==
    IF count = 0 THEN NoRange
    ELSE IF size = 0 THEN [NoRange EXCEPT !.nan = TRUE]
    ELSE LET startIndex == getStartIndexForOffset(count, size, offset)
             stopIndex  == getStopIndexForStartIndex(count, size, h, startIndex, offset)
         IN  [nan |-> FALSE,
              overscanStart |-> Max2(0, startIndex - overscanBackward(oc, scrolling, dir)),
              overscanStop  |-> Max2(0, Min2(count - 1, stopIndex + overscanForward(oc, scrolling, dir))),
              start |-> startIndex,
              stop  |-> stopIndex]

\* mutant: the render loop runs without the itemCount > 0 guard
renderedIndicesUnguarded(count, r) ==
    IF ~r.nan THEN r.overscanStart .. r.overscanStop ELSE {}

\* mutant: no windowing, a row element for every item
renderedIndicesAll(count, r) == 0 .. (count - 1)

\* the indices the render loop creates a row element for
renderedIndices(count, r) ==
    IF count > 0 /\ ~r.nan THEN r.overscanStart .. r.overscanStop ELSE {}

\* the row elements: index -> style.top
renderItems(count, size, r) ==
    [i \in renderedIndices(count, r) |-> getItemOffset(size, i)]

\* scrollHeight - clientHeight of the outer element
maxScrollTop(count, size, h) ==
    Max2(0, getEstimatedTotalSize(count, size) - h)

\* mutant: the reported scrollTop is not clamped to the scrollable extent
clampScrollLowerOnly(count, size, h, top) == Max2(0, top)

\* _onScrollVertical's clamp
clampScroll(count, size, h, top) ==
    Max2(0, Min2(top, maxScrollTop(count, size, h)))

(* ------------------------- Home, Header, Cart ------------------------- *)
\* mutant: the updater appends to the cart of the render that created addToCart
setCartFromClosure(prev, product) == Append(<<>>, product)

\* mutant: the updater puts the product first
setCartPrepend(prev, product) == <<product>> \o prev

\* setCart's updater: prev => [...prev, product]
setCartUpdater(prev, product) == Append(prev, product)

\* React applies the queued updaters in order, each to the result of the one before
RECURSIVE applyUpdates(_, _)
applyUpdates(prev, queue) ==
    IF queue = <<>> THEN prev
    ELSE applyUpdates(setCartUpdater(prev, Head(queue)), Tail(queue))

\* mutant: the reduce skips an entry equal to the one before it
RECURSIVE cartTotalDistinct(_)
cartTotalDistinct(c) ==
    IF c = <<>> THEN 0
    ELSE IF Len(c) > 1 /\ c[Len(c)] = c[Len(c) - 1] THEN cartTotalDistinct(SubSeq(c, 1, Len(c) - 1))
    ELSE cartTotalDistinct(SubSeq(c, 1, Len(c) - 1)) + c[Len(c)].price

\* cart.reduce((sum, item) => sum + item.price, 0)
RECURSIVE cartTotal(_)
cartTotal(c) ==
    IF c = <<>> THEN 0
    ELSE cartTotal(SubSeq(c, 1, Len(c) - 1)) + c[Len(c)].price

\* useMemo's dependency check on [cart]: every updater returns a new array, and
\* two carts of one behaviour that are different arrays differ in length
memoDepsChanged(prevCart, nextCart) == prevCart # nextCart

\* mutant: the total is memoized with no dependency, computed once
useMemoTotalNoDeps(prevCart, nextCart, cached) == cached

\* useMemo(() => cart.reduce(...), [cart])
useMemoTotal(prevCart, nextCart, cached) ==
    IF memoDepsChanged(prevCart, nextCart) THEN cartTotal(nextCart) ELSE cached

\* mutant: Header never renders again after it is mounted
headerPropsNeverChanged(prevCount, nextCount) == FALSE

\* React.memo(Header): renders again when the cartCount prop is another number
headerPropsChanged(prevCount, nextCount) == prevCount # nextCount

\* mutant: the Suspense boundary shows its children while the import is pending
suspenseShowsChildren(status) == "Home"

\* <Suspense fallback={<h2>Loading Page...</h2>}><Home/></Suspense>
suspenseShows(status) == IF status = "pending" THEN "Loading Page..." ELSE "Home"

\* mutant: the list is mounted again with Home and starts at the top
listOffsetReset(offset) == 0

\* the List instance, and with it its scroll offset, survives Home's renders
listOffsetKept(offset) == offset

\* mutant: staleTime is left at its default 0: cached data is never fresh
shouldFetchNoStaleTime(isFresh, flights) == flights = 0

\* useQuery({queryKey: ["products"], queryFn: fetchProducts, staleTime: 5 * 60 * 1000}):
\* a fetch asked of the query calls fetchProducts when the cached data is not
\* fresh and no call for the key is in flight
shouldFetch(isFresh, flights) == ~isFresh /\ flights = 0

(* ------------------------------- Init --------------------------------- *)
EmptyRows == [i \in {} |-> 0]

InitCommon ==
    /\ cart = <<>>
    /\ pending = <<>>
    /\ clicks = <<>>
    /\ batchSize = 0
    /\ scrollTop = 0
    /\ scrollOffset = 0
    /\ isScrolling = FALSE
    /\ scrollDirection = "forward"
    /\ remounted = {}
    /\ isLoading = FALSE
    /\ listMounted = (variant = "list")
    /\ lazyHome = (IF variant \in {"import", "query"} THEN "pending" ELSE "resolved")
    /\ shown = suspenseShows(lazyHome)
    /\ lastEvent = "mount"
    /\ headerCount = 0
    /\ headerRenders = 0
    /\ shownCount = 0
    /\ total = 0
    /\ totalCalcs = 0
    /\ bodyRenders = 0
    /\ fetchCount = 0
    /\ inFlight = 0
    /\ fresh = FALSE
    /\ requests = 0
    /\ LET r == getRangeToRender(itemCount, itemSize, height, overscanCount, 0, FALSE, "forward")
       IN  IF variant # "list"
           THEN /\ range = NoRange
                /\ rows = EmptyRows
                /\ innerHeight = 0
                /\ cardRendered = {}
           ELSE /\ range = r
                /\ rows = renderItems(itemCount, itemSize, r)
                /\ innerHeight = getEstimatedTotalSize(itemCount, itemSize)
                /\ cardRendered = renderedIndices(itemCount, r)

\* App before import("./pages/Home") has resolved; Home will pass
\* <List height={500} itemCount={products.length} itemSize={120}>
Init ==
    /\ variant \in {"import", "query"}
    /\ catalogSize \in CatalogSizes
    /\ itemSize = HomeItemSize
    /\ height = HomeHeight
    /\ overscanCount \in OverscanCounts
    /\ InitCommon

\* a <List> constructed directly: <List height itemCount itemSize>{row}</List>
ListInit ==
    /\ variant = "list"
    /\ catalogSize \in ListItemCounts
    /\ itemSize \in ListItemSizes
    /\ height \in ListHeights
    /\ overscanCount \in OverscanCounts
    /\ InitCommon

(* ------------------------------ actions ------------------------------- *)
\* the List renders again with the same row function: rows that stay keep
\* their ProductCard (React.memo, same product and addToCart), new rows mount
ListRerender(offset, scrolling, dir) ==
    LET r == getRangeToRender(itemCount, itemSize, height, overscanCount, offset, scrolling, dir)
    IN  /\ range' = r
        /\ rows' = renderItems(itemCount, itemSize, r)
        /\ innerHeight' = getEstimatedTotalSize(itemCount, itemSize)
        /\ cardRendered' = renderedIndices(itemCount, r) \ DOMAIN rows
        /\ remounted' = {}

\* Home's return with the products at hand: Header, Cart and the List mount
MountHomeBody ==
    /\ listMounted' = TRUE
    /\ lastEvent' = "mount"
    /\ headerCount' = Len(cart)
    /\ headerRenders' = headerRenders + 1
    /\ shownCount' = Len(cart)
    /\ total' = cartTotal(cart)
    /\ totalCalcs' = totalCalcs + 1
    /\ bodyRenders' = bodyRenders + 1
    /\ LET r == getRangeToRender(catalogSize, itemSize, height, overscanCount, 0, FALSE, "forward")
       IN  /\ range' = r
           /\ rows' = renderItems(catalogSize, itemSize, r)
           /\ innerHeight' = getEstimatedTotalSize(catalogSize, itemSize)
           /\ cardRendered' = renderedIndices(catalogSize, r)
    /\ remounted' = {}

\* import("./pages/Home") resolves: Suspense replaces the fallback by Home, which
\* renders for the first time (the useQuery Home starts loading and returns early)
LazyHomeResolve ==
    /\ lazyHome = "pending"
    /\ lazyHome' = "resolved"
    /\ shown' = suspenseShows("resolved")
    /\ IF variant = "query"
       THEN /\ isLoading' = TRUE
            /\ requests' = requests + 1
            /\ fetchCount' = IF shouldFetch(fresh, inFlight) THEN fetchCount + 1 ELSE fetchCount
            /\ inFlight' = IF shouldFetch(fresh, inFlight) THEN inFlight + 1 ELSE inFlight
            /\ UNCHANGED <<fresh, listMounted, lastEvent, range, rows, innerHeight,
                           cardRendered, remounted, cartViewVars>>
       ELSE /\ isLoading' = FALSE
            /\ MountHomeBody
            /\ UNCHANGED queryVars
    /\ UNCHANGED <<propVars, cart, pending, clicks, batchSize, scrollTop,
                   scrollOffset, isScrolling, scrollDirection>>

\* a fetchProducts promise resolves (500 ms after the call): the products are
\* cached afresh; when Home was loading, isLoading becomes false and Home
\* renders the list.  A refetch returns the same products and renders nothing.
FetchProductsResolve ==
    /\ variant = "query"
    /\ inFlight > 0
    /\ pending = <<>>
    /\ inFlight' = inFlight - 1
    /\ fresh' = TRUE
    /\ isLoading' = FALSE
    /\ IF isLoading
       THEN MountHomeBody
       ELSE UNCHANGED <<listMounted, lastEvent, range, rows, innerHeight,
                        cardRendered, remounted, cartViewVars>>
    /\ UNCHANGED <<propVars, cart, pending, clicks, batchSize, scrollTop,
                   scrollOffset, isScrolling, scrollDirection, lazyHome, shown,
                   fetchCount, requests>>

\* five minutes pass since the products were cached
StaleTimeElapses ==
    /\ variant = "query"
    /\ fresh
    /\ fresh' = FALSE
    /\ UNCHANGED <<propVars, isLoading, cart, listMounted, listVars, lastEvent,
                   lazyHome, shown, pending, clicks, batchSize, cartViewVars,
                   fetchCount, inFlight, requests>>

\* the window regains focus: the query client asks the mounted query to refetch
WindowFocus ==
    /\ variant = "query"
    /\ lazyHome = "resolved"
    /\ pending = <<>>
    /\ requests < MaxFetch
    /\ requests' = requests + 1
    /\ fetchCount' = IF shouldFetch(fresh, inFlight) THEN fetchCount + 1 ELSE fetchCount
    /\ inFlight' = IF shouldFetch(fresh, inFlight) THEN inFlight + 1 ELSE inFlight
    /\ UNCHANGED <<propVars, isLoading, cart, listMounted, listVars, lastEvent,
                   lazyHome, shown, pending, clicks, batchSize, cartViewVars, fresh>>

\* _onScrollVertical
Scroll(top) ==
    /\ listMounted
    /\ pending = <<>>
    /\ scrollTop' = top
    /\ lastEvent' = "scroll"
    /\ IF scrollOffset = top
       THEN UNCHANGED <<scrollOffset, isScrolling, scrollDirection, range, rows,
                        innerHeight, cardRendered, remounted>>
       ELSE LET offset == clampScroll(itemCount, itemSize, height, top)
                dir == IF scrollOffset < offset THEN "forward" ELSE "backward"
            IN  /\ scrollOffset' = offset
                /\ isScrolling' = TRUE
                /\ scrollDirection' = dir
                /\ ListRerender(offset, TRUE, dir)
    /\ UNCHANGED <<propVars, isLoading, cart, listMounted, lazyHome, shown,
                   pending, clicks, batchSize, cartViewVars, queryVars>>

\* _resetIsScrolling, debounced after the last scroll event
ResetIsScrolling ==
    /\ listMounted
    /\ pending = <<>>
    /\ isScrolling
    /\ isScrolling' = FALSE
    /\ lastEvent' = "idle"
    /\ ListRerender(scrollOffset, FALSE, scrollDirection)
    /\ UNCHANGED <<propVars, isLoading, cart, listMounted, scrollTop, scrollOffset,
                   scrollDirection, lazyHome, shown, pending, clicks, batchSize,
                   cartViewVars, queryVars>>

\* the click the model draws: the Add to Cart button of the first visible row
Clickable == IF listMounted THEN {range.start} \cap DOMAIN rows ELSE {}

\* products[index]: its price is drawn when the product is first clicked
ProductsAt(index) ==
    LET known == {clicks[k].price : k \in {j \in 1..Len(clicks) : clicks[j].index = index}}
    IN  {[index |-> index, price |-> p] : p \in (IF known = {} THEN Prices ELSE known)}

\* ProductCard's button: addToCart(product) -> setCart(prev => [...prev, product]).
\* The updater is queued; Home renders after the event that made the calls.
AddToCart(product) ==
    /\ product.index \in Clickable
    /\ Len(clicks) < MaxCart
    /\ pending' = Append(pending, product)
    /\ clicks' = Append(clicks, product)
    /\ UNCHANGED <<propVars, isLoading, cart, listMounted, listVars, lastEvent,
                   lazyHome, shown, batchSize, cartViewVars, queryVars>>

\* Home renders with the queued updaters applied.  Header is React.memo on
\* cartCount, Cart renders with the new cart, and Home's inline row function is
\* a new function, which the list uses as the element type of every row, so
\* every row is mounted anew.
HomeRerender ==
    /\ pending # <<>>
    /\ cart' = applyUpdates(cart, pending)
    /\ pending' = <<>>
    /\ batchSize' = Len(pending)
    /\ lastEvent' = "addToCart"
    /\ headerRenders' = IF headerPropsChanged(headerCount, Len(cart'))
                        THEN headerRenders + 1 ELSE headerRenders
    /\ headerCount' = IF headerPropsChanged(headerCount, Len(cart'))
                      THEN Len(cart') ELSE headerCount
    /\ shownCount' = Len(cart')
    /\ total' = useMemoTotal(cart, cart', total)
    /\ totalCalcs' = IF memoDepsChanged(cart, cart') THEN totalCalcs + 1 ELSE totalCalcs
    /\ bodyRenders' = bodyRenders + 1
    /\ scrollOffset' = listOffsetKept(scrollOffset)
    /\ range' = getRangeToRender(itemCount, itemSize, height, overscanCount, scrollOffset', isScrolling, scrollDirection)
    /\ rows' = renderItems(itemCount, itemSize, range')
    /\ innerHeight' = getEstimatedTotalSize(itemCount, itemSize)
    /\ cardRendered' = renderedIndices(itemCount, range')
    /\ remounted' = renderedIndices(itemCount, range')
    /\ UNCHANGED <<propVars, isLoading, listMounted, scrollTop, isScrolling,
                   scrollDirection, lazyHome, shown, clicks, queryVars>>

Next ==
    \/ LazyHomeResolve
    \/ FetchProductsResolve
    \/ \E top \in ScrollTops : Scroll(top)
    \/ ResetIsScrolling
    \/ \E index \in Clickable : \E product \in ProductsAt(index) : AddToCart(product)
    \/ HomeRerender

Spec == Init /\ [][Next]_vars

\* the list on its own: scroll events and the debounced reset
NextList ==
    \/ \E top \in ScrollTops : Scroll(top)
    \/ ResetIsScrolling

SpecList == ListInit /\ [][NextList]_vars

\* the useQuery Home with the events that bear on the products query: the
\* window regaining focus and the staleTime running out; no scrolling
QueryInit ==
    /\ Init
    /\ variant = "query"

NextQuery ==
    \/ LazyHomeResolve
    \/ FetchProductsResolve
    \/ StaleTimeElapses
    \/ WindowFocus
    \/ \E index \in Clickable : \E product \in ProductsAt(index) : AddToCart(product)
    \/ HomeRerender

SpecQuery == QueryInit /\ [][NextQuery]_vars

\* Header and Cart on their own, under a parent that holds a cart and renders
\* <Header cartCount={cart.length} /> and <Cart cart={cart} /> as Home does.
\* The parent may render again with the same cart array, with another array
\* of the same length or with one of another length.  An array is identified
\* by its contents: a parent that passes another array passes other contents.
ParentInit ==
    /\ variant = "parent"
    /\ catalogSize = MaxSmallCatalog
    /\ itemSize = HomeItemSize
    /\ height = HomeHeight
    /\ overscanCount \in OverscanCounts
    /\ InitCommon

\* the carts a parent may hold: up to MaxCart entries of the catalog
ParentCarts ==
    LET entries == {[index |-> i, price |-> p] : i \in 0..(catalogSize - 1), p \in Prices}
    IN  UNION {[1..n -> entries] : n \in 0..MaxCart}

\* the parent renders: Header (React.memo on cartCount) and Cart (useMemo on
\* cart) mount at the first render and are updated at the later ones
ParentRender(nextCart) ==
    /\ variant = "parent"
    /\ bodyRenders < MaxRenders
    /\ cart' = nextCart
    /\ bodyRenders' = bodyRenders + 1
    /\ lastEvent' = "parentRender"
    /\ shownCount' = Len(nextCart)
    /\ IF bodyRenders = 0
       THEN /\ headerRenders' = headerRenders + 1
            /\ headerCount' = Len(nextCart)
            /\ total' = cartTotal(nextCart)
            /\ totalCalcs' = totalCalcs + 1
       ELSE /\ headerRenders' = IF headerPropsChanged(headerCount, Len(nextCart))
                                THEN headerRenders + 1 ELSE headerRenders
            /\ headerCount' = IF headerPropsChanged(headerCount, Len(nextCart))
                              THEN Len(nextCart) ELSE headerCount
            /\ total' = useMemoTotal(cart, nextCart, total)
            /\ totalCalcs' = IF memoDepsChanged(cart, nextCart) THEN totalCalcs + 1 ELSE totalCalcs
    /\ UNCHANGED <<propVars, isLoading, listMounted, listVars, lazyHome, shown,
                   pending, clicks, batchSize, queryVars>>

NextParent == \E nextCart \in ParentCarts : ParentRender(nextCart)

SpecParent == ParentInit /\ [][NextParent]_vars

(* ------------------------------ claims -------------------------------- *)
\* ceil(a / b) for b > 0, written out for the claims
CeilPos(a, b) == (a + b - 1) \div b
\* x clamped to [0, n - 1], written out for the claims
ClampIndex(x, n) == IF x < 0 THEN 0 ELSE IF x > n - 1 THEN (IF n - 1 < 0 THEN 0 ELSE n - 1) ELSE x
HomeConfig == itemSize = 120 /\ height = 500
ValidConfig == itemSize > 0 /\ height > 0 /\ itemCount >= 0

\* C1: with Home's row height 120 and viewport height 500, for every
\* itemCount >= 0 and every state reached by scroll events, the visible range
\* has firstIndex <= lastIndex and both lie in [0, max(itemCount - 1, 0)].
C1_RangeWithinBounds ==
    (listMounted /\ HomeConfig /\ itemCount >= 0) =>
        /\ range.start <= range.stop
        /\ 0 <= range.start
        /\ range.stop <= (IF itemCount - 1 > 0 THEN itemCount - 1 ELSE 0)

\* C1 witness: ten items scrolled past the end, the range ending at the last item
C1_Witness ==
    /\ listMounted /\ HomeConfig /\ lastEvent = "scroll"
    /\ itemCount = 10 /\ scrollTop = 6110 /\ scrollOffset = 700
    /\ range.start = 5 /\ range.stop = 9

\* C2 as stated: on every scroll the range is firstIndex = floor(scrollOffset /
\* rowHeight), lastIndex = firstIndex + ceil(viewportHeight / rowHeight), both
\* clamped to [0, itemCount - 1], and the rendered block starts at
\* firstIndex * rowHeight.
C2_Original ==
    (listMounted /\ ValidConfig /\ itemCount > 0 /\ lastEvent = "scroll") =>
        /\ range.start = ClampIndex(scrollOffset \div itemSize, itemCount)
        /\ range.stop = ClampIndex(range.start + CeilPos(height, itemSize), itemCount)
        /\ \A i \in DOMAIN rows : rows[i] >= range.start * itemSize

\* C2 amended: on every scroll the range is firstIndex = floor(scrollOffset /
\* rowHeight) and lastIndex = firstIndex + ceil((viewportHeight + scrollOffset
\* - firstIndex * rowHeight) / rowHeight) - 1, both clamped to
\* [0, itemCount - 1], and every rendered row i is positioned at i * rowHeight.
C2_RangeRecomputed ==
    (listMounted /\ ValidConfig /\ itemCount > 0 /\ lastEvent = "scroll") =>
        /\ range.start = ClampIndex(scrollOffset \div itemSize, itemCount)
        /\ range.stop = ClampIndex(range.start
                            + CeilPos(height + scrollOffset - range.start * itemSize, itemSize) - 1,
                            itemCount)
        /\ \A i \in DOMAIN rows : rows[i] = i * itemSize
        /\ range.start \in DOMAIN rows

\* C2 witness: a scroll to an offset inside a row
C2_Witness ==
    /\ listMounted /\ ValidConfig /\ lastEvent = "scroll"
    /\ itemCount = 1000 /\ itemSize = 120 /\ height = 500
    /\ scrollOffset = 220 /\ range.start = 1 /\ range.stop = 5
    /\ rows[1] = 120

\* C3: with itemCount = 1000, rowHeight = 120, viewportHeight = 500 the visible
\* range is [0, 4] at scrollOffset 0, [50, 54] at scrollOffset 6000, and at
\* scrollOffset 1,000,000 it is the last valid range, ending at index 999.
C3_Scenario ==
    (listMounted /\ HomeConfig /\ itemCount = 1000) =>
        /\ scrollOffset = 0 => (range.start = 0 /\ range.stop = 4)
        /\ scrollOffset = 6000 => (range.start = 50 /\ range.stop = 54)
        /\ scrollTop = 1000000 => (range.start <= range.stop /\ range.stop = 999)
        /\ getRangeToRender(1000, 120, 500, 2, 1000000, TRUE, "forward").stop = 999

\* C3 witness: the list of 1000 after the scroll event that reports 1,000,000
C3_Witness ==
    /\ listMounted /\ HomeConfig /\ itemCount = 1000
    /\ lastEvent = "scroll" /\ scrollTop = 1000000
    /\ range.stop = 999

\* C4: with itemCount = 0 no row is rendered and the row callback is not
\* invoked, at any scroll offset; nor is any while the query is still loading.
C4_EmptyListRendersNothing ==
    /\ (listMounted /\ itemCount = 0) =>
          (DOMAIN rows = {} /\ cardRendered = {} /\ range.start = 0 /\ range.stop = 0)
    /\ ~listMounted => (DOMAIN rows = {} /\ cardRendered = {})

\* C4 witness: an empty catalog, scrolled
C4_Witness ==
    /\ listMounted /\ itemCount = 0 /\ lastEvent = "scroll" /\ scrollTop = 110
    /\ DOMAIN rows = {}

\* C5: a scroll offset beyond itemCount * rowHeight - viewportHeight is no
\* error: the list stays mounted and the range is the last valid one, ending at
\* itemCount - 1.
C5_BeyondMaxClamps ==
    (HomeConfig /\ itemCount > 0 /\ lastEvent = "scroll"
        /\ scrollTop > itemCount * itemSize - height) =>
        /\ listMounted
        /\ range.stop = itemCount - 1
        /\ range.start <= range.stop
        /\ scrollOffset = (IF itemCount * itemSize - height > 0
                           THEN itemCount * itemSize - height ELSE 0)
        /\ range.stop \in DOMAIN rows

\* C5 witness: ten items (1200 px), scrolled to 6000
C5_Witness ==
    /\ listMounted /\ HomeConfig /\ itemCount = 10 /\ lastEvent = "scroll"
    /\ scrollTop = 6000 /\ scrollOffset = 700 /\ range.stop = 9

\* C6 as stated: under an invalid configuration (row height <= 0 or a negative
\* itemCount) no row is ever rendered.
C6_NoRowsUnderInvalidConfig ==
    (itemSize <= 0 \/ itemCount < 0) => DOMAIN rows = {}

\* C7 as stated: a cart update renders (or remounts) no ProductCard whose
\* product and addToCart props are unchanged.
C7_NoCardRenderedOnCartUpdate ==
    lastEvent = "addToCart" => (cardRendered = {} /\ remounted = {})

\* C8 as stated: the row callback is invoked only for indices within the
\* visible range.
C8_Original ==
    \A i \in DOMAIN rows : range.start <= i /\ i <= range.stop

\* C8 amended: the row callback is invoked only for indices within the visible
\* range widened by the overscan margin (at most 2 rows before firstIndex and 2
\* rows after lastIndex), and never for an index outside [0, itemCount - 1].
C8_RowsWithinOverscan ==
    \A i \in DOMAIN rows :
        /\ range.start - 2 <= i
        /\ i <= range.stop + 2
        /\ 0 <= i /\ i <= itemCount - 1

\* C8 witness: rows past the visible range are mounted
C8_Witness ==
    /\ listMounted /\ itemCount = 1000 /\ lastEvent = "scroll" /\ scrollOffset = 6000
    /\ range.stop = 54 /\ 56 \in DOMAIN rows /\ 49 \in DOMAIN rows

\* C9: the number of rows rendered is at most ceil(viewportHeight / rowHeight)
\* + 1 plus the overscan margin on both sides, whatever itemCount is.
C9_RowCountBounded ==
    Cardinality(DOMAIN rows) <= CeilPos(height, itemSize) + 1 + 2 * 2

\* C9 witness: the bound is attained in a list of 1000
C9_Witness ==
    /\ listMounted /\ itemCount = 1000
    /\ Cardinality(DOMAIN rows) = CeilPos(height, itemSize) + 1 + 2 * 2

\* C10: the synthesized scroll height is itemCount * rowHeight in every state.
C10_TotalHeight ==
    listMounted => innerHeight = itemCount * itemSize

\* C10 witness: 1000 rows of 120 px, scrolled and with rows in the cart
C10_Witness ==
    /\ listMounted /\ itemCount = 1000 /\ scrollOffset = 6000 /\ Len(cart) > 0
    /\ innerHeight = 120000

\* C11: each click on a row's button calls addToCart once with that row's
\* entry, which is appended at the end of the cart; the list keeps no
\* selection state, so the cart (with the updates still queued) is exactly the
\* sequence of clicked entries in click order, duplicates kept, nothing removed.
C11_CartIsClickSequence ==
    /\ cart \o pending = clicks
    /\ pending = <<>> => cart = clicks
    /\ \A k \in 1..Len(clicks) : clicks[k].index \in 0..(catalogSize - 1)

\* C11 witness: two different rows were clicked, one after a scroll, and Home
\* has rendered the cart holding both in click order
C11_Witness ==
    /\ listMounted /\ pending = <<>> /\ lastEvent = "addToCart"
    /\ Len(cart) = 2 /\ cart = clicks
    /\ cart[1].index # cart[2].index

\* the sum of the prices of a cart's entries, one term per occurrence
RECURSIVE SumPrices(_)
SumPrices(c) == IF c = <<>> THEN 0 ELSE SumPrices(SubSeq(c, 1, Len(c) - 1)) + c[Len(c)].price

\* C17: at every render the total Cart displays is the sum of the prices of
\* the entries of the current cart, an entry counting once per occurrence, and
\* 0 for the empty cart; the item count Cart displays is the cart's length.
C17_CartTotalAndCount ==
    listMounted =>
        /\ total = SumPrices(cart)
        /\ shownCount = Len(cart)
        /\ cart = <<>> => total = 0

\* C17 witness: the same product, priced 999, is in the cart twice
C17_Witness ==
    /\ listMounted /\ lastEvent = "addToCart"
    /\ Len(cart) = 2 /\ cart[1] = cart[2] /\ cart[1].price = 999
    /\ total = 1998 /\ shownCount = 2

\* C19: no cart update is lost: when n addToCart calls were made, several of
\* them before Home rendered again, the rendered cart has exactly n entries
\* and the Header count and the Cart count both show n.
C19_NoLostUpdate ==
    (listMounted /\ pending = <<>>) =>
        /\ Len(cart) = Len(clicks)
        /\ headerCount = Len(clicks)
        /\ shownCount = Len(clicks)

\* C19 witness: two calls were made before Home rendered, and both are shown
C19_Witness ==
    /\ listMounted /\ pending = <<>> /\ lastEvent = "addToCart"
    /\ batchSize = 2 /\ Len(clicks) = 2
    /\ Len(cart) = 2 /\ headerCount = 2 /\ shownCount = 2

\* C12: Cart calculates its total anew only at a render whose cart differs
\* from the cart of the previous render; a render with the same cart keeps the
\* cached total without calculating, and at every render the total held is the
\* total of the current cart.
C12_TotalMemoized ==
    /\ [](bodyRenders > 0 => total = SumPrices(cart))
    /\ [][(bodyRenders > 0 /\ totalCalcs' # totalCalcs) => cart' # cart]_vars
    /\ [][(bodyRenders > 0 /\ bodyRenders' > bodyRenders /\ cart' = cart)
            => (totalCalcs' = totalCalcs /\ total' = total)]_vars
    /\ [][(bodyRenders' > bodyRenders /\ cart' # cart) => totalCalcs' = totalCalcs + 1]_vars

\* C12 witness: Cart rendered three times, twice with the same two-entry cart,
\* and calculated the total once for each of the two carts it was given
C12_Witness ==
    /\ variant = "parent" /\ bodyRenders = 3 /\ totalCalcs = 2
    /\ Len(cart) = 2 /\ total = 1998

\* C13: Header renders again only when cartCount changes: a render of its
\* parent that leaves cart.length unchanged does not render Header, and every
\* change of cart.length renders it with the new count.
C13_HeaderRendersOnCountChange ==
    /\ [](bodyRenders > 0 => headerCount = Len(cart))
    /\ [][(bodyRenders > 0 /\ headerRenders' # headerRenders) => Len(cart') # Len(cart)]_vars
    /\ [][(bodyRenders > 0 /\ Len(cart') # Len(cart))
            => (headerRenders' = headerRenders + 1 /\ headerCount' = Len(cart'))]_vars

\* C13 witness: the parent rendered three times, once with another cart of the
\* same length, and Header rendered twice and shows the count
C13_Witness ==
    /\ variant = "parent" /\ bodyRenders = 3 /\ headerRenders = 2 /\ totalCalcs = 3
    /\ Len(cart) = 1 /\ headerCount = 1

\* C14: Home's module is loaded when App first renders; while the load is
\* pending the placeholder "Loading Page..." is shown and Home is not, and once
\* the load has completed Home is shown and the placeholder never comes back.
C14_LazyHome ==
    /\ [](lazyHome = "pending" =>
            (shown = "Loading Page..." /\ ~listMounted /\ bodyRenders = 0 /\ fetchCount = 0))
    /\ [](lazyHome = "resolved" => shown = "Home")
    /\ [][lazyHome = "pending" => lazyHome' \in {"pending", "resolved"}]_vars
    /\ [][shown = "Home" => (shown' = "Home" /\ lazyHome' = "resolved")]_vars

\* C14 witness: the load has completed, Home is shown and has been used
C14_Witness ==
    /\ variant = "import" /\ lazyHome = "resolved" /\ shown = "Home"
    /\ listMounted /\ lastEvent = "scroll" /\ Len(cart) = 1

\* C15: with the query keyed ["products"] and a staleTime of five minutes,
\* fetchProducts is not called while the cached products are fresh: renders of
\* Home (those after addToCart included) and further requests for the key use
\* the cache, and requests made while a call is in flight share that call.
C15_NoFetchWhileFresh ==
    /\ [](inFlight <= 1 /\ fetchCount <= requests)
    /\ [][fetchCount' # fetchCount =>
            (~fresh /\ inFlight = 0 /\ fetchCount' = fetchCount + 1 /\ requests' = requests + 1)]_vars
    /\ [][(cart' # cart \/ pending' # pending) =>
            (fetchCount' = fetchCount /\ requests' = requests)]_vars
    /\ [][(requests' # requests /\ (fresh \/ inFlight > 0)) => fetchCount' = fetchCount]_vars

\* C15 witness: the products were fetched once, the key was requested again
\* and Home rendered for two addToCart calls, and the data is still fresh
C15_Witness ==
    /\ variant = "query" /\ listMounted /\ fresh /\ inFlight = 0
    /\ fetchCount = 1 /\ requests = 2
    /\ Len(cart) = 2 /\ bodyRenders = 3

\* C18: the scroll offset is changed only by scroll events and the catalog
\* never changes after load: an addToCart action leaves the scroll offset, the
\* visible range and every catalog entry unchanged, and a scroll event leaves
\* the cart unchanged.
C18_Frame ==
    /\ [][(cart' # cart \/ pending' # pending \/ clicks' # clicks) =>
            /\ scrollOffset' = scrollOffset
            /\ scrollTop' = scrollTop
            /\ range'.start = range.start /\ range'.stop = range.stop
            /\ catalogSize' = catalogSize
            /\ itemCount' = itemCount]_vars
    /\ [](\A j, k \in 1..Len(clicks) :
            clicks[j].index = clicks[k].index => clicks[j].price = clicks[k].price)
    /\ [][(scrollOffset' # scrollOffset \/ scrollTop' # scrollTop) =>
            (lastEvent' = "scroll" /\ cart' = cart /\ pending' = pending /\ clicks' = clicks)]_vars
    /\ [][catalogSize' = catalogSize]_vars
    /\ [][\A k \in 1..Len(clicks) : (clicks')[k] = clicks[k]]_vars

\* C18 witness: an addToCart rendered while the list was scrolled to 6000, and
\* the offset and the range are those of the scroll
C18_Witness ==
    /\ listMounted /\ itemCount = 1000 /\ lastEvent = "addToCart"
    /\ scrollOffset = 6000 /\ range.start = 50 /\ range.stop = 54
    /\ Len(cart) = 1 /\ cart[1].index = 50

\* the visible range as a function of its four inputs alone, written out for the claims
VisibleRangeOf(n, size, h, offset) ==
    IF n = 0 THEN <<0, 0>>
    ELSE LET first == ClampIndex(offset \div size, n)
             last  == ClampIndex(first + CeilPos(h + offset - first * size, size) - 1, n)
         IN  <<first, last>>

\* C16: the visible range is a function of (itemCount, rowHeight,
\* viewportHeight, scrollOffset) alone: in every state it is the value that
\* function gives for the state's four inputs, whatever the cart holds and
\* whatever scroll history and direction led to the offset.
C16_RangeIsFunctionOfInputs ==
    (listMounted /\ ValidConfig) =>
        <<range.start, range.stop>> = VisibleRangeOf(itemCount, itemSize, height, scrollOffset)

\* C16 witness: offset 110 reached by scrolling backward, with a row in the
\* cart and Home rendered again while the list was still scrolling
C16_Witness ==
    /\ listMounted /\ itemCount = 1000 /\ scrollOffset = 110
    /\ scrollDirection = "backward" /\ isScrolling /\ lastEvent = "addToCart"
    /\ Len(cart) = 1 /\ range.start = 0 /\ range.stop = 5

=============================================================================
